---- MODULE Spec2Model ----
(***************************************************************************)
(* Service Health Dashboard (src/src/App.jsx): the App component's state   *)
(* (data, systemInfo, showConfetti), the two fetch handlers, the mount     *)
(* effect with its 5 s interval, the health classification isHealthy and   *)
(* the aggregation groupByName.                                            *)
(*                                                                         *)
(* Time is in integer milliseconds.  A date string of the wire format is   *)
(* a record [kind, ms]: kind "iso" is a parseable timestamp with epoch     *)
(* value ms, kind "text" is a string dayjs cannot parse.                   *)
(***************************************************************************)
EXTENDS Integers, Sequences, FiniteSets, TLC

VARIABLES
    data,          \* useState([])            App.jsx:69
    systemInfo,    \* useState({cpu, mem})    App.jsx:70
    showConfetti,  \* useState(false)         App.jsx:74  (the latch)
    groupedData,   \* const groupedData = groupByName()   App.jsx:137
    healthy,       \* StatusCard's  healthy  of every card rendered  App.jsx:20
    interval,      \* the setInterval handle: "none", "active", "cleared"
    pendingData,   \* fetchData calls awaiting axios.get
    pendingInfo,   \* fetchSystemInfo calls awaiting axios.get
    now,           \* the wall clock read by dayjs(), ms
    toasts,        \* toast.* calls made by the last step, in order
    op,            \* history: the step taken last
    wasCelebrating,\* history: showConfetti before the last step
    lastPoll,      \* history: the response fetchData evaluated last
    startedBefore, \* history: events requests in flight that were started
                   \*   before the request whose response is stored
    staleWrite     \* history: the last step stored the response of a
                   \*   request started before the one it overwrote

vars == <<data, systemInfo, showConfetti, groupedData, healthy, interval,
          pendingData, pendingInfo, now, toasts, op, wasCelebrating, lastPoll,
          startedBefore, staleWrite>>

(***************************************************************************)
(* Bounds of the model.                                                    *)
(***************************************************************************)
MaxEvents == 2       \* longest events payload a poll returns in Spec
MaxInFlight == 2     \* requests of one source in flight together
MaxClockSteps == 1   \* clock advances in Spec
MaxGroupLen == 3     \* longest event sequence grouped in SpecRender
MaxStamp == 1        \* timestamps 0..MaxStamp classified in SpecRender
Margin == 2          \* ms classified beyond the last whole second

(***************************************************************************)
(* Program constants.                                                      *)
(***************************************************************************)
StaleAfterSec == 25          \* now.diff(timestamp, "second") <= 25
MsPerSecond == 1000          \* dayjs unit "second"

(***************************************************************************)
(* dayjs                                                                   *)
(***************************************************************************)
IsoDate(ms) == [kind |-> "iso", ms |-> ms]
Unparsable == [kind |-> "text", ms |-> 0]

\* dayjs(dateStr): a dayjs object; an unparsable string gives an invalid one.
dayjs(dateStr) ==
    IF dateStr.kind = "iso"
    THEN [valid |-> TRUE, ms |-> dateStr.ms]
    ELSE [valid |-> FALSE, ms |-> 0]

\* dayjs's absFloor: truncation toward zero of n / d.
absFloor(n, d) == IF n < 0 THEN -((-n) \div d) ELSE n \div d

\* a.diff(b, "second") for valid a, b: whole seconds, truncated toward zero.
diffSeconds(a, b) == absFloor(a.ms - b.ms, MsPerSecond)

\* Mutation: the age compared in milliseconds, without truncation.
isHealthyExact(dateStr, t) ==
    LET timestamp == dayjs(dateStr)
    IN  timestamp.valid /\ t - timestamp.ms <= StaleAfterSec * MsPerSecond

\* Mutation: the test written as !(diff > 25), which NaN passes.
isHealthyNaNPasses(dateStr, t) ==
    LET timestamp == dayjs(dateStr)
    IN  ~timestamp.valid
        \/ diffSeconds([valid |-> TRUE, ms |-> t], timestamp) <= StaleAfterSec

\* isHealthy(dateStr) evaluated when the clock reads t.  The diff with an
\* invalid dayjs object is NaN, and NaN <= 25 is false.
isHealthy(dateStr, t) ==
    LET timestamp == dayjs(dateStr)
    IN  timestamp.valid
        /\ diffSeconds([valid |-> TRUE, ms |-> t], timestamp) <= StaleAfterSec

(***************************************************************************)
(* Response bodies.  A body is [isArray, items]: an array of events, or a  *)
(* JSON value that is not an array (an error object, null, a string).      *)
(***************************************************************************)
Array(items) == [isArray |-> TRUE, items |-> items]
NotAnArray == [isArray |-> FALSE, items |-> <<>>]
IsArray(body) == body.isArray

Event(n, ty, d) == [name |-> n, type |-> ty, date |-> d]

RECURSIVE SeqsUpTo(_, _)
SeqsUpTo(S, n) ==
    IF n = 0 THEN {<<>>}
    ELSE LET shorter == SeqsUpTo(S, n - 1)
         IN  shorter \cup {Append(s, e) : s \in shorter, e \in S}

\* Mutation: only the first item is classified.
firstUnhealthy(items, t) ==
    items # <<>> /\ ~isHealthy(items[1].date, t)

\* items.some((item) => !isHealthy(item.date))
hasUnhealthy(items, t) ==
    \E i \in DOMAIN items : ~isHealthy(items[i].date, t)

(***************************************************************************)
(* groupByName.  A JS object is [keys, vals]: keys lists the own property  *)
(* names in creation order, vals holds their arrays at the same indices;   *)
(* threw marks the TypeError thrown in place of a result.                  *)
(***************************************************************************)
EmptyObject == [threw |-> FALSE, keys |-> <<>>, vals |-> <<>>]
TypeError == [threw |-> TRUE, keys |-> <<>>, vals |-> <<>>]

\* Properties every object inherits from Object.prototype.
ObjectPrototypeKeys == {"constructor", "toString", "__proto__"}

HasOwn(obj, key) == \E i \in DOMAIN obj.keys : obj.keys[i] = key

\* !obj[key]: own values are arrays (truthy), inherited ones are functions
\* or Object.prototype (truthy), anything else reads undefined.
IsFalsy(obj, key) == ~HasOwn(obj, key) /\ key \notin ObjectPrototypeKeys

\* obj[key] = []
DefineArray(obj, key) ==
    [obj EXCEPT !.keys = Append(@, key), !.vals = Append(@, <<>>)]

\* obj[key].push(item): an inherited value has no push method.
Push(obj, key, item) ==
    IF HasOwn(obj, key)
    THEN LET i == CHOOSE j \in DOMAIN obj.keys : obj.keys[j] = key
         IN  [obj EXCEPT !.vals[i] = Append(@, item)]
    ELSE TypeError

\* The body of the forEach callback.
GroupItem(groups, item) ==
    LET made == IF IsFalsy(groups, item.name)
                THEN DefineArray(groups, item.name)
                ELSE groups
    IN  Push(made, item.name, item)

RECURSIVE forEach(_, _, _)
forEach(d, i, groups) ==
    IF groups.threw \/ i > Len(d) THEN groups
    ELSE forEach(d, i + 1, GroupItem(groups, d[i]))

\* The array index a property name denotes, -1 when it denotes none.
ArrayIndex(key) ==
    CASE key = "2" -> 2
      [] key = "10" -> 10
      [] OTHER -> -1

RECURSIVE Ascending(_)
Ascending(S) ==
    IF S = {} THEN <<>>
    ELSE LET k == CHOOSE x \in S :
                      \A y \in S : ArrayIndex(x) <= ArrayIndex(y)
         IN  <<k>> \o Ascending(S \ {k})

\* Object.keys(obj): the own property names that are array indices, in
\* ascending numeric order, then the other names in creation order.
ObjectKeys(obj) ==
    Ascending({obj.keys[i] : i \in {j \in DOMAIN obj.keys :
                                       ArrayIndex(obj.keys[j]) >= 0}})
        \o SelectSeq(obj.keys, LAMBDA k : ArrayIndex(k) < 0)

\* groupByName() over the state value d; d.forEach of a non-array throws.
groupByName(d) ==
    IF IsArray(d) THEN forEach(d.items, 1, EmptyObject) ELSE TypeError

\* The cards' classification at render time t; a render that throws
\* shows no card.
Cards(d, t) ==
    IF groupByName(d).threw THEN <<>>
    ELSE [i \in DOMAIN d.items |-> isHealthy(d.items[i].date, t)]

(***************************************************************************)
(* The component.                                                          *)
(***************************************************************************)
\* useState initial values.
InitialData == Array(<<>>)
Metrics(c, m) == [cpu |-> [total |-> c], mem |-> [percent |-> m]]
InitialSystemInfo == Metrics(0, 0)

\* The showConfetti binding read by the fetchData that runs.  The effect has
\* the dependency list [], so the fetchData it calls at mount and hands to
\* setInterval is the one created by the first render, and that one closes
\* over the first render's showConfetti, the useState initial value.
capturedShowConfetti == FALSE

\* Mutation: the alert branch does not call setShowConfetti(false).
NotifyKeepsLatch(items, t, latch, binding) ==
    IF hasUnhealthy(items, t)
    THEN [latch |-> latch, toasts |-> <<"error">>]
    ELSE IF ~binding
         THEN [latch |-> TRUE, toasts |-> <<"success">>]
         ELSE [latch |-> latch, toasts |-> <<>>]

\* Lines 84-94 of fetchData for an array body: the latch value set and the
\* toasts made, given the showConfetti binding the closure reads.
Notify(items, t, latch, binding) ==
    IF hasUnhealthy(items, t)
    THEN [latch |-> FALSE, toasts |-> <<"error">>]
    ELSE IF ~binding
         THEN [latch |-> TRUE, toasts |-> <<"success">>]
         ELSE [latch |-> latch, toasts |-> <<>>]

\* The render that follows a state update.
Render(d, t) ==
    /\ groupedData' = groupByName(d)
    /\ healthy' = Cards(d, t)

(***************************************************************************)
(* Inputs.                                                                 *)
(***************************************************************************)
PollNames == {"api"}
PollAges == {StaleAfterSec * MsPerSecond, (StaleAfterSec + 1) * MsPerSecond}

\* The events a response can carry when the clock reads t.
PollDates(t) == {IsoDate(t - a) : a \in PollAges}
PollEvents(t) ==
    {Event(n, "heartbeat", d) : n \in PollNames, d \in PollDates(t)}

\* The bodies a response of the events endpoint can carry.
PollBodies(t) ==
    {Array(s) : s \in SeqsUpTo(PollEvents(t), MaxEvents)} \cup {NotAnArray}

\* The bodies a response of the metrics endpoint can carry.
MetricsBodies == {Metrics(10, 40), Metrics(90, 60)}

NoPoll == [seen |-> FALSE, body |-> InitialData, unhealthy |-> FALSE]

(***************************************************************************)
(* Init: the component after its first render, before the effect runs.     *)
(***************************************************************************)
Init ==
    /\ data = InitialData
    /\ systemInfo = InitialSystemInfo
    /\ showConfetti = FALSE
    /\ groupedData = groupByName(InitialData)
    /\ healthy = Cards(InitialData, 0)
    /\ interval = "none"
    /\ pendingData = 0
    /\ pendingInfo = 0
    /\ now = 0
    /\ toasts = <<>>
    /\ op = "init"
    /\ wasCelebrating = FALSE
    /\ lastPoll = NoPoll
    /\ startedBefore = 0
    /\ staleWrite = FALSE

\* What a step that runs no fetchData continuation leaves alone.
Quiet(name) ==
    /\ toasts' = <<>>
    /\ op' = name
    /\ wasCelebrating' = showConfetti
    /\ UNCHANGED lastPoll

\* A step that completes no events request.
Idle ==
    /\ staleWrite' = FALSE
    /\ UNCHANGED startedBefore

\* One of the events requests in flight completes: the k-th oldest, any k,
\* since axios settles each call's promise on its own.  A response that is
\* stored (write) makes every request still in flight that is older than
\* it one started before the stored response.
SettleData(write) ==
    \E k \in 1..pendingData :
        /\ staleWrite' = (write /\ k <= startedBefore)
        /\ startedBefore' = IF write THEN k - 1
                            ELSE IF k <= startedBefore THEN startedBefore - 1
                            ELSE startedBefore

\* useEffect body: both fetches start, the interval is installed.
Mount ==
    /\ interval = "none"
    /\ interval' = "active"
    /\ pendingData' = pendingData + 1
    /\ pendingInfo' = pendingInfo + 1
    /\ Quiet("mount")
    /\ Idle
    /\ UNCHANGED <<data, systemInfo, showConfetti, groupedData, healthy, now>>

\* Mutation: a tick is skipped while a request is outstanding.
TickSkipsWhenOutstanding ==
    /\ interval = "active"
    /\ pendingData = 0
    /\ pendingInfo = 0
    /\ pendingData' = pendingData + 1
    /\ pendingInfo' = pendingInfo + 1
    /\ Quiet("tick")
    /\ Idle
    /\ UNCHANGED <<data, systemInfo, showConfetti, groupedData, healthy,
                   interval, now>>

\* Mutation: the cleanup clears nothing, the callback keeps firing.
TickAfterCleanup ==
    /\ interval # "none"
    /\ pendingData < MaxInFlight
    /\ pendingInfo < MaxInFlight
    /\ pendingData' = pendingData + 1
    /\ pendingInfo' = pendingInfo + 1
    /\ Quiet("tick")
    /\ Idle
    /\ UNCHANGED <<data, systemInfo, showConfetti, groupedData, healthy,
                   interval, now>>

\* The interval callback: both fetches start, whatever is outstanding.
\* The period is not modelled: a tick may come at any clock reading.
Tick ==
    /\ interval = "active"
    /\ pendingData < MaxInFlight
    /\ pendingInfo < MaxInFlight
    /\ pendingData' = pendingData + 1
    /\ pendingInfo' = pendingInfo + 1
    /\ Quiet("tick")
    /\ Idle
    /\ UNCHANGED <<data, systemInfo, showConfetti, groupedData, healthy,
                   interval, now>>

\* The effect's cleanup: clearInterval.  Requests in flight stay in flight,
\* and the handlers below test nothing after their await: their setter and
\* toast calls are made whether or not the cleanup has run.
Teardown ==
    /\ interval = "active"
    /\ interval' = "cleared"
    /\ Quiet("teardown")
    /\ Idle
    /\ UNCHANGED <<data, systemInfo, showConfetti, groupedData, healthy,
                   pendingData, pendingInfo, now>>

\* Mutation: a response of a request started before the one whose response
\* is stored is dropped (the handler returns before setData).
FetchDataResolveNewestOnly(body) ==
    /\ pendingData > 0
    /\ pendingData' = pendingData - 1
    /\ IsArray(body)
    /\ op' = "data:ok"
    /\ lastPoll' = [seen |-> TRUE, body |-> body,
                    unhealthy |-> \E i \in DOMAIN body.items :
                        ~isHealthy(body.items[i].date, now)]
    /\ wasCelebrating' = showConfetti
    /\ \E k \in 1..pendingData :
           IF k <= startedBefore
           THEN /\ staleWrite' = FALSE
                /\ startedBefore' = startedBefore - 1
                /\ toasts' = <<>>
                /\ UNCHANGED <<data, showConfetti, groupedData, healthy>>
           ELSE LET r == Notify(body.items, now, showConfetti,
                                capturedShowConfetti)
                IN  /\ staleWrite' = FALSE
                    /\ startedBefore' = k - 1
                    /\ data' = body
                    /\ showConfetti' = r.latch
                    /\ toasts' = r.toasts
                    /\ Render(body, now)
    /\ UNCHANGED <<systemInfo, interval, pendingInfo, now>>

\* axios.get of the events endpoint resolves with body.  setData comes
\* first; a body that is not an array then makes response.data.some throw,
\* which the catch logs.
FetchDataResolve(body) ==
    /\ pendingData > 0
    /\ pendingData' = pendingData - 1
    /\ data' = body
    /\ IF IsArray(body)
       THEN LET r == Notify(body.items, now, showConfetti, capturedShowConfetti)
            IN  /\ showConfetti' = r.latch
                /\ toasts' = r.toasts
                /\ op' = "data:ok"
                /\ lastPoll' = [seen |-> TRUE, body |-> body,
                                unhealthy |-> \E i \in DOMAIN body.items :
                                    ~isHealthy(body.items[i].date, now)]
       ELSE /\ showConfetti' = showConfetti
            /\ toasts' = <<>>
            /\ op' = "data:throw"
            /\ lastPoll' = lastPoll
    /\ wasCelebrating' = showConfetti
    /\ SettleData(TRUE)
    /\ Render(body, now)
    /\ UNCHANGED <<systemInfo, interval, pendingInfo, now>>

\* Mutation: the catch calls setShowConfetti(false).
FetchDataRejectNeutral ==
    /\ pendingData > 0
    /\ pendingData' = pendingData - 1
    /\ showConfetti' = FALSE
    /\ Quiet("data:reject")
    /\ SettleData(FALSE)
    /\ Render(data, now)
    /\ UNCHANGED <<data, systemInfo, interval, pendingInfo, now>>

\* Mutation: the catch clears the stored events.
FetchDataRejectClears ==
    /\ pendingData > 0
    /\ pendingData' = pendingData - 1
    /\ data' = InitialData
    /\ Quiet("data:reject")
    /\ SettleData(FALSE)
    /\ Render(InitialData, now)
    /\ UNCHANGED <<systemInfo, showConfetti, interval, pendingInfo, now>>

\* axios.get of the events endpoint rejects: the catch logs.
FetchDataReject ==
    /\ pendingData > 0
    /\ pendingData' = pendingData - 1
    /\ Quiet("data:reject")
    /\ SettleData(FALSE)
    /\ UNCHANGED <<data, systemInfo, showConfetti, groupedData, healthy,
                   interval, pendingInfo, now>>

\* axios.get of the metrics endpoint resolves with body.
FetchSystemInfoResolve(body) ==
    /\ pendingInfo > 0
    /\ pendingInfo' = pendingInfo - 1
    /\ systemInfo' = body
    /\ Quiet("info:ok")
    /\ Idle
    /\ Render(data, now)
    /\ UNCHANGED <<data, showConfetti, interval, pendingData, now>>

\* Mutation: the catch puts the metrics back to their initial value.
FetchSystemInfoRejectResets ==
    /\ pendingInfo > 0
    /\ pendingInfo' = pendingInfo - 1
    /\ systemInfo' = InitialSystemInfo
    /\ Quiet("info:reject")
    /\ Idle
    /\ Render(data, now)
    /\ UNCHANGED <<data, showConfetti, interval, pendingData, now>>

\* axios.get of the metrics endpoint rejects: the catch logs.
FetchSystemInfoReject ==
    /\ pendingInfo > 0
    /\ pendingInfo' = pendingInfo - 1
    /\ Quiet("info:reject")
    /\ Idle
    /\ UNCHANGED <<data, systemInfo, showConfetti, groupedData, healthy,
                   interval, pendingData, now>>

\* The clock advances by one second.
Elapse ==
    /\ now < MaxClockSteps * MsPerSecond
    /\ now' = now + MsPerSecond
    /\ Quiet("elapse")
    /\ Idle
    /\ UNCHANGED <<data, systemInfo, showConfetti, groupedData, healthy,
                   interval, pendingData, pendingInfo>>

Next ==
    \/ Mount
    \/ Tick
    \/ Teardown
    \/ \E body \in PollBodies(now) : FetchDataResolve(body)
    \/ FetchDataReject
    \/ \E body \in MetricsBodies : FetchSystemInfoResolve(body)
    \/ FetchSystemInfoReject
    \/ Elapse

Spec == Init /\ [][Next]_vars

(***************************************************************************)
(* SpecRender: isHealthy and groupByName as pure functions.  Init draws    *)
(* the stored events and the clock from bounded sets; RenderStep is the    *)
(* render of lines 137 and 163-176, which applies both.                    *)
(***************************************************************************)
HealthDates == {IsoDate(t) : t \in 0..MaxStamp} \cup {Unparsable}
HealthNows ==
    (0 - MsPerSecond - Margin)..((StaleAfterSec + 1) * MsPerSecond + Margin)

GroupNames == {"api", "db", "10", "2", "constructor"}
GroupTypes == {"cpu", "mem"}
GroupEvents == {Event(n, ty, IsoDate(0)) : n \in GroupNames, ty \in GroupTypes}

InitRender ==
    /\ \/ /\ data \in {Array(<<Event("api", "cpu", d)>>) : d \in HealthDates}
          /\ now \in HealthNows
       \/ /\ data \in {Array(s) : s \in SeqsUpTo(GroupEvents, MaxGroupLen)}
          /\ now = 0
    /\ systemInfo = InitialSystemInfo
    /\ showConfetti = FALSE
    /\ groupedData = groupByName(InitialData)
    /\ healthy = Cards(InitialData, 0)
    /\ interval = "active"
    /\ pendingData = 0
    /\ pendingInfo = 0
    /\ toasts = <<>>
    /\ op = "init"
    /\ wasCelebrating = FALSE
    /\ lastPoll = NoPoll
    /\ startedBefore = 0
    /\ staleWrite = FALSE

RenderStep ==
    /\ op = "init"
    /\ Render(data, now)
    /\ Quiet("render")
    /\ Idle
    /\ UNCHANGED <<data, systemInfo, showConfetti, interval, pendingData,
                   pendingInfo, now>>

NextRender == RenderStep

SpecRender == InitRender /\ [][NextRender]_vars

(***************************************************************************)
(* SpecBoundary: the component polled with boundary timestamps: one second *)
(* in the future, the present instant, 26 s old, and unparsable.           *)
(***************************************************************************)
BoundaryDates(t) ==
    {IsoDate(t + MsPerSecond), IsoDate(t),
     IsoDate(t - (StaleAfterSec + 1) * MsPerSecond), Unparsable}

BoundaryBodies(t) ==
    {Array(s) : s \in SeqsUpTo({Event("api", "heartbeat", d) :
                                   d \in BoundaryDates(t)}, MaxEvents)}

NextBoundary ==
    \/ Mount
    \/ Tick
    \/ \E body \in BoundaryBodies(now) : FetchDataResolve(body)
    \/ FetchSystemInfoReject

SpecBoundary == Init /\ [][NextBoundary]_vars

(***************************************************************************)
(* Properties.                                                             *)
(***************************************************************************)
\* The stored events as a poll just evaluated them: after "data:ok" the
\* clock still reads the instant of evaluation and data is the payload.
StoredHasStale ==
    \E i \in DOMAIN data.items : ~isHealthy(data.items[i].date, now)

\* C1: a successful poll whose (non-empty) event set is entirely Healthy
\* emits no CelebrateSignal when the latch was already Celebrating before
\* the poll.
CelebrationEdgeTriggered ==
    (op = "data:ok" /\ data.items # <<>> /\ ~StoredHasStale /\ wasCelebrating)
        => toasts = <<>>

\* C2: every successful poll whose event set contains a Stale event emits
\* exactly one AlertSignal and leaves the latch Neutral, whatever the latch
\* was before.
AlertLevelTriggered ==
    (op = "data:ok" /\ StoredHasStale)
        => (toasts = <<"error">> /\ ~showConfetti)

\* C2 witness: a poll with a Stale event was processed while Celebrating.
AlertWhileCelebrating ==
    /\ op = "data:ok"
    /\ StoredHasStale
    /\ wasCelebrating
    /\ toasts = <<"error">>
    /\ ~showConfetti

\* C3: a successful poll that returns an empty event set emits AlertSignal
\* and sets the latch Neutral.
EmptyPollAlerts ==
    (op = "data:ok" /\ data.items = <<>>)
        => (toasts = <<"error">> /\ ~showConfetti)

\* C4: a poll that fails in transport leaves the stored events, the latch
\* and the stored metrics as they were and emits no signal.
TransportFailureChangesNothing ==
    [][op' = "data:reject"
        => /\ data' = data
           /\ showConfetti' = showConfetti
           /\ systemInfo' = systemInfo
           /\ toasts' = <<>>]_vars

\* C4 witness: a transport failure met stored events, fetched metrics and a
\* Celebrating latch.
FailureWhileCelebrating ==
    /\ op = "data:reject"
    /\ showConfetti
    /\ data.items # <<>>
    /\ systemInfo # InitialSystemInfo

\* C5: a response with a malformed payload leaves the stored events and the
\* latch as they were and emits no signal.
MalformedPayloadChangesNothing ==
    [][op' = "data:throw"
        => /\ data' = data
           /\ showConfetti' = showConfetti
           /\ toasts' = <<>>]_vars

\* C6: the latch is Celebrating only if the successful poll response
\* processed last had no Stale event when it was evaluated, and the stored
\* events are the payload of that response.
LatchReflectsLastPoll ==
    showConfetti
        => /\ lastPoll.seen
           /\ ~lastPoll.unhealthy
           /\ data = lastPoll.body

RECURSIVE SumLen(_, _)
SumLen(arrays, i) ==
    IF i > Len(arrays) THEN 0 ELSE Len(arrays[i]) + SumLen(arrays, i + 1)

GroupingIsPartition ==
    op = "render"
        => /\ ~groupedData.threw
           /\ \A i, j \in DOMAIN groupedData.keys :
                  groupedData.keys[i] = groupedData.keys[j] => i = j
           /\ \A i \in DOMAIN data.items :
                  HasOwn(groupedData, data.items[i].name)
           /\ \A i \in DOMAIN groupedData.keys :
                  groupedData.vals[i] =
                      SelectSeq(data.items,
                                LAMBDA e : e.name = groupedData.keys[i])
           /\ SumLen(groupedData.vals, 1) = Len(data.items)

\* C9: a response to an events request that was in flight at teardown
\* mutates nothing and emits no signal.
PostTeardownWritesGuarded ==
    [][(interval = "cleared" /\ op' = "data:ok")
        => /\ data' = data
           /\ systemInfo' = systemInfo
           /\ showConfetti' = showConfetti
           /\ toasts' = <<>>]_vars

\* C10: a completion of fetchSystemInfo stores the response on success and
\* keeps the metrics on failure, and either way leaves the stored events
\* and the latch alone and emits no signal; a completion of fetchData never
\* changes the stored metrics.
MetricsDecoupled ==
    [][/\ op' = "info:ok" => systemInfo' \in MetricsBodies
       /\ op' = "info:reject" => systemInfo' = systemInfo
       /\ op' \in {"info:ok", "info:reject"}
              => /\ data' = data
                 /\ showConfetti' = showConfetti
                 /\ toasts' = <<>>
       /\ op' \in {"data:ok", "data:throw", "data:reject"}
              => systemInfo' = systemInfo]_vars

\* C10 witness: a metrics response replaced earlier metrics while events
\* were stored and the latch was Celebrating.
MetricsReplacedWhileCelebrating ==
    /\ op = "info:ok"
    /\ systemInfo = Metrics(90, 60)
    /\ wasCelebrating
    /\ showConfetti
    /\ data.items # <<>>

\* C11: completion is last-writer-wins: after a response of the events
\* endpoint is processed, the stored events are its body and, when the body
\* was evaluated, the latch is the one that evaluation produced, whether the
\* request was started before or after the one whose response it replaced.
LastWriterWins ==
    /\ op = "data:ok"
           => /\ data = lastPoll.body
              /\ showConfetti = ~lastPoll.unhealthy
    /\ op = "data:throw" => ~IsArray(data)

\* C11 witness: the response just stored, with a Stale event, belongs to a
\* request started before the request whose stored response it overwrote,
\* and it took the latch from Celebrating to Neutral.
OlderResponseOverwroteNewer ==
    /\ op = "data:ok"
    /\ staleWrite
    /\ data.items # <<>>
    /\ data = lastPoll.body
    /\ wasCelebrating
    /\ ~showConfetti

\* C12: from mount until teardown the mount and every tick start one events
\* fetch and one metrics fetch, and a tick can come whatever is outstanding,
\* hung or failed (up to the model's cap on requests in flight).
TicksNeverBlocked ==
    /\ [][op' \in {"mount", "tick"}
            => /\ pendingData' = pendingData + 1
               /\ pendingInfo' = pendingInfo + 1]_vars
    /\ []((/\ interval = "active"
           /\ pendingData < MaxInFlight
           /\ pendingInfo < MaxInFlight) => ENABLED Tick)

\* C12 witness: a tick started both fetches while an events request of an
\* earlier tick was still outstanding and the metrics requests had settled.
TickWithEventsOutstanding ==
    /\ op = "tick"
    /\ pendingData = 2
    /\ pendingInfo = 1

\* C13: after teardown no events fetch and no metrics fetch is started.
NoFetchAfterTeardown ==
    [][interval = "cleared"
        => /\ interval' = "cleared"
           /\ pendingData' <= pendingData
           /\ pendingInfo' <= pendingInfo]_vars

\* C13 witness: the run went on after teardown until every request in
\* flight had settled.
SettledAfterTeardown ==
    /\ interval = "cleared"
    /\ op \in {"data:ok", "data:reject", "info:ok", "info:reject"}
    /\ pendingData = 0
    /\ pendingInfo = 0

\* C14: a timestamp in the future of the evaluation instant is classified
\* Healthy, an unparsable one Stale, and a polled set that holds an
\* unparsable timestamp produces an AlertSignal.
BoundaryTimestamps ==
    op = "data:ok"
        => \A i \in DOMAIN data.items :
               /\ (data.items[i].date.kind = "iso"
                     /\ data.items[i].date.ms > now) => healthy[i]
               /\ data.items[i].date.kind = "text"
                     => /\ ~healthy[i]
                        /\ toasts = <<"error">>
                        /\ ~showConfetti

\* C14 witness: a polled set held a future and an unparsable timestamp.
FutureAndUnparsablePolled ==
    /\ op = "data:ok"
    /\ toasts = <<"error">>
    /\ \E i, j \in DOMAIN data.items :
           /\ data.items[i].date.kind = "iso"
           /\ data.items[i].date.ms > now
           /\ healthy[i]
           /\ data.items[j].date.kind = "text"
           /\ ~healthy[j]

\* C15: between successfully processed polls the stored events and the
\* latch stay frozen.
FrozenBetweenPolls ==
    [][op' # "data:ok"
        => /\ data' = data
           /\ showConfetti' = showConfetti]_vars

\* C15, the state the claim says is reachable: the latch is Celebrating
\* while a stored event is Stale at the current instant.
CelebratingWhileStoredStale ==
    /\ showConfetti
    /\ IsArray(data)
    /\ \E i \in DOMAIN data.items : ~isHealthy(data.items[i].date, now)

\* C16: the latch goes from Celebrating to Neutral only in a step that is a
\* successful poll observing a Stale event.
LatchResetOnlyByStalePoll ==
    [][(showConfetti /\ ~showConfetti')
        => (op' = "data:ok" /\ lastPoll'.unhealthy)]_vars

\* C16 witness: a Celebrating latch was set Neutral.
LatchRearmed ==
    /\ wasCelebrating
    /\ ~showConfetti
    /\ lastPoll.seen
    /\ lastPoll.unhealthy

\* C17: the groups are listed in the order of first appearance of their
\* names in the event sequence.
RECURSIVE FirstAppearance(_, _, _)
FirstAppearance(items, i, seen) ==
    IF i > Len(items) THEN seen
    ELSE FirstAppearance(items, i + 1,
             IF \E j \in DOMAIN seen : seen[j] = items[i].name
             THEN seen ELSE Append(seen, items[i].name))

GroupOrderIsFirstAppearance ==
    (op = "render" /\ ~groupedData.threw)
        => ObjectKeys(groupedData) = FirstAppearance(data.items, 1, <<>>)

\* C18: a step emits at most one signal, an AlertSignal comes with the
\* latch Neutral and a CelebrateSignal with the latch Celebrating, and until
\* the first successful poll no signal is emitted and the latch is Neutral.
AtMostOneSignal ==
    /\ Len(toasts) <= 1
    /\ toasts = <<"error">> => ~showConfetti
    /\ toasts = <<"success">> => showConfetti
    /\ ~lastPoll.seen => (toasts = <<>> /\ ~showConfetti)

\* C18 witness: the first CelebrateSignal, with the latch set Celebrating.
CelebrateSetsLatch ==
    /\ op = "data:ok"
    /\ toasts = <<"success">>
    /\ showConfetti
    /\ ~wasCelebrating

====
